---- MODULE Spec2Model ----
(***************************************************************************)
(* Bidirectional file synchronization engine of wpsite-cli                 *)
(* (src/src/commands/dev.js): SyncManager, handleFileChange, scheduleSync, *)
(* performSync, isFileStable, getSyncPaths.                                *)
(*                                                                         *)
(* Time is counted in units of PROBE_WAIT_MS (500 ms), the smallest delay  *)
(* of the program; every other delay is a multiple of it.  A timer is      *)
(* represented by the time left until it fires; Tick lets time pass only   *)
(* when nothing is due, and what is due at the same instant fires in any   *)
(* order.                                                                  *)
(***************************************************************************)
EXTENDS Integers, Sequences, FiniteSets, TLC

(* ------------------------------ bounds -------------------------------- *)
\* distinct non-empty file contents the external actors write
MaxContent == 2
\* external writes (editors, the container) in one behaviour
MaxEdits == 3
\* external writes in one behaviour of SpecOne
MaxEditsOne == 5
MaxEditsProbe == 4
\* characters of a directory or file name, directories of a root, and
\* directories and file name of a path below a root
MaxNameLen == 2
MaxRootDepth == 2
MaxRelDepth == 2

(* ------------------------- program constants -------------------------- *)
PROBE_WAIT_MS == 500
ZERO_SIZE_WAIT_MS == 500
RETRY_WAIT_MS == 1000
MaxAttempts == 3
LOCK_TIMEOUT_MS == 10000
RECENT_KEEP_MS == 5000
RECENT_MODIFIED_MS == 3000
DELAY_TARGET_TO_SOURCE_MS == 4000
DELAY_SOURCE_TO_TARGET_MS == 2000
RELEASE_DELAY_MS == 1000
STABILITY_THRESHOLD_MS == 1000
STOP_WAIT_MS == 1000

Ticks(ms) == ms \div PROBE_WAIT_MS

(* ------------------------------- paths -------------------------------- *)
Roots == {"source", "target"}
\* the relative paths of the model
Files == {"style.css", "functions.php"}
\* an absolute path: the root it lies under and the path relative to it
Paths == Roots \X Files
Directions == {"source-to-target", "target-to-source"}
Keys == Paths \X Directions
\* 0 is the empty file (size 0); 1..MaxContent are non-empty contents
Contents == 0..MaxContent

VARIABLES
  fs,                 \* the two trees: existing path -> [data, mtime]
  fileHashes,         \* SyncManager.fileHashes: Map path -> hash
  lastSyncTime,       \* SyncManager.lastSyncTime: Map path -> age of the timestamp
  syncingFiles,       \* SyncManager.syncingFiles: Set of paths
  recentlySynced,     \* SyncManager.recentlySynced: Set of paths
  pendingOperations,  \* SyncManager.pendingOperations: Map key -> its timeout (the time left of it)
  timers,             \* the setTimeout calls still to fire
  execs,              \* path -> the performSync executions of that path in flight
  evt,                \* the watcher: path -> write waiting for awaitWriteFinish
  edits,              \* external writes left
  editable,           \* what the external actors do: their writes and removals
  sinceGated,         \* key -> its events that passed the gates since the last hand-off: how
                      \*   many, and the time since the last of them
  window,             \* written path -> the sync that last wrote it, for WINDOW_MS after the copy
  released,           \* path -> the time since the release of a sync cleared its active flag
  session,            \* the dev command: its phase, the time to process.exit, the cleanup() calls
  last                \* the step just taken and what it observed

vars == <<fs, fileHashes, lastSyncTime, syncingFiles, recentlySynced,
          pendingOperations, timers, execs, evt, edits, editable, sinceGated, window,
          released, session, last>>

(* ------------------------------ the session --------------------------- *)
\* The dev command after setupCustomContent started the watcher: "starting"
\* until process.on("SIGINT") is reached, then "running"; "stopping" while
\* the SIGINT handler waits for stopDockerContainer, "exited" after
\* process.exit.
Session(phase) == [phase |-> phase, rem |-> 0, cleanups |-> 0]

Alive == session.phase # "exited"

\* the watcher reports: it was not closed
Watching == session.phase \in {"starting", "running"}

\* the writes the watcher will report
Observed(pendingEvents) == IF Watching THEN pendingEvents ELSE << >>

(* ------------------------------ SyncManager --------------------------- *)
\* crypto.createHash("md5").update(content).digest("hex"): a function of the bytes
Md5(data) == <<"md5", data>>
NullHash == <<"null">>

GetFileHash(files, p) ==
  IF p \in DOMAIN files THEN Md5(files[p].data) ELSE NullHash

\* faulty variant: the stored hash is not compared
HasFileChangedAnyReadable(files, hashes, p) ==
  GetFileHash(files, p) # NullHash

\* faulty variant: a path with no stored hash is not reported
HasFileChangedStoredOnly(files, hashes, p) ==
  LET currentHash == GetFileHash(files, p)
  IN  /\ p \in DOMAIN hashes
      /\ currentHash # hashes[p]
      /\ currentHash # NullHash

HasFileChanged(files, hashes, p) ==
  LET currentHash == GetFileHash(files, p)
  IN  /\ (p \notin DOMAIN hashes \/ currentHash # hashes[p])
      /\ currentHash # NullHash

\* faulty variant: only the active flag blocks
IsFileLockedActiveOnly(p) == p \in syncingFiles

IsFileLocked(p) == p \in syncingFiles \/ p \in recentlySynced

WasRecentlyModified(p, thresholdMs) ==
  /\ p \in DOMAIN lastSyncTime
  /\ lastSyncTime[p] < Ticks(thresholdMs)

\* faulty variant: the two hashes are not compared
HashesAgreeNoCompare(files, a, b) ==
  /\ GetFileHash(files, a) # NullHash
  /\ GetFileHash(files, b) # NullHash

\* the hash recheck of updateRelatedHashes: both readable and equal
HashesAgree(files, a, b) ==
  /\ GetFileHash(files, a) # NullHash
  /\ GetFileHash(files, b) # NullHash
  /\ GetFileHash(files, a) = GetFileHash(files, b)

\* faulty variant: only the hash of the file read is stored
UpdateRelatedHashesReadOnly(files, hashes, a, b) ==
  IF HashesAgree(files, a, b)
  THEN (a :> GetFileHash(files, a)) @@ hashes
  ELSE hashes

\* updateRelatedHashes: the new fileHashes
UpdateRelatedHashes(files, hashes, a, b) ==
  IF HashesAgree(files, a, b)
  THEN (a :> GetFileHash(files, a)) @@ (b :> GetFileHash(files, b)) @@ hashes
  ELSE hashes

\* updateRelatedHashes: the new lastSyncTime (age 0 is Date.now())
UpdateRelatedTimes(files, times, a, b) ==
  IF HashesAgree(files, a, b)
  THEN (a :> 0) @@ (b :> 0) @@ times
  ELSE times

\* lockFile's and unlockFile's setTimeout
AutoUnlockTimer(p) == [kind |-> "autoUnlock", path |-> p, rem |-> Ticks(LOCK_TIMEOUT_MS)]
ForgetTimer(p) == [kind |-> "forget", path |-> p, rem |-> Ticks(RECENT_KEEP_MS)]

(* ------------------------------ the trees ----------------------------- *)
Size(data) == IF data = 0 THEN 0 ELSE 1

\* fs.statSync: what isFileStable compares
Stat(files, p) == [size |-> Size(files[p].data), mtime |-> files[p].mtime]
NoStats == [size |-> 0, mtime |-> 0]

HoldsSnapshot(e) == e.pc = "stat2wait"

\* The modification time a write gives p.  Only its equality with a snapshot
\* that a probe of p still holds is ever observed, so it is numbered from
\* the snapshots held: different from each of them.
NewMtime(ex, p) ==
  LET held == {ex[p][i].stats1.mtime : i \in {j \in DOMAIN ex[p] : HoldsSnapshot(ex[p][j])}}
  IN  IF held = {} THEN 0
      ELSE 1 + CHOOSE m \in held : \A n \in held : n <= m

\* every probe of p that holds a snapshot has now seen a write
MarkWritten(ex, p) ==
  [ex EXCEPT ![p] = [i \in DOMAIN ex[p] |->
      IF HoldsSnapshot(ex[p][i]) THEN [ex[p][i] EXCEPT !.written = TRUE] ELSE ex[p][i]]]

\* the watcher's awaitWriteFinish: a write is reported once the path has
\* been quiet for the stability threshold
Awaiting(own) == [rem |-> Ticks(STABILITY_THRESHOLD_MS), own |-> own]

\* a write of data to p, by the engine (own) or by an external actor
WriteFile(env, p, data, own) ==
  [fs    |-> (p :> [data |-> data, mtime |-> NewMtime(env.execs, p)]) @@ env.fs,
   evt   |-> (p :> Awaiting(own)) @@ env.evt,
   execs |-> MarkWritten(env.execs, p)]

\* an external actor removes p: no add or change is reported for it
DeleteFile(env, p) ==
  [fs    |-> [q \in DOMAIN env.fs \ {p} |-> env.fs[q]],
   evt   |-> [q \in DOMAIN env.evt \ {p} |-> env.evt[q]],
   execs |-> MarkWritten(env.execs, p)]

Env == [fs |-> fs, evt |-> evt, execs |-> execs]

(* ------------------------------ getSyncPaths -------------------------- *)
OtherRoot(r) == IF r = "source" THEN "target" ELSE "source"
Counterpart(p) == <<OtherRoot(p[1]), p[2]>>

\* handleFileChange: normalizedPath.startsWith(syncManager.sourcePath)
DirectionOf(p) == IF p[1] = "source" THEN "source-to-target" ELSE "target-to-source"

GetSyncPaths(p, direction) ==
  IF direction = "source-to-target"
  THEN [sourcePath |-> p, targetPath |-> <<"target", p[2]>>]
  ELSE [sourcePath |-> p, targetPath |-> <<"source", p[2]>>]

(* ------------------------------ Init ---------------------------------- *)
\* setupCustomContent copies the source tree over the target tree and
\* initializeFileHashes records every existing file (updateFileHash).
InitEngine(existing) ==
  /\ fs = [p \in Roots \X existing |-> [data |-> 1, mtime |-> 0]]
  /\ fileHashes = [p \in DOMAIN fs |-> GetFileHash(fs, p)]
  /\ lastSyncTime = [p \in DOMAIN fs |-> 0]
  /\ syncingFiles = {}
  /\ recentlySynced = {}
  /\ pendingOperations = << >>
  /\ timers = {}
  /\ execs = [p \in Paths |-> << >>]
  /\ evt = << >>
  /\ sinceGated = << >>
  /\ window = << >>
  /\ released = << >>
  /\ last = [op |-> "init"]

\* the dev command has reached process.on("SIGINT")
InitTreesOf(existing) ==
  /\ InitEngine(existing)
  /\ session = Session("running")

\* every file of the model exists in both trees
InitTrees == InitTreesOf(Files)

\* what external actors do to the two copies of the relative paths in files
Writes(files, datas) == {[kind |-> "write", path |-> p, data |-> d] : p \in Roots \X files, d \in datas}
Deletes(files) == {[kind |-> "delete", path |-> p, data |-> 0] : p \in Roots \X files}

\* one relative path, edited on both sides
Init ==
  /\ InitTrees
  /\ edits = MaxEdits
  /\ editable = Writes({"style.css"}, 1..MaxContent) \cup Deletes({"style.css"})

\* one path, edited many times
InitOne ==
  /\ InitTrees
  /\ edits = MaxEditsOne
  /\ editable = {op \in Writes({"style.css"}, 1..MaxContent) \cup Deletes({"style.css"}) :
                    op.path[1] = "source"}

\* two relative paths, one edited in the source tree, the other in the target tree
InitTwo ==
  /\ InitTrees
  /\ edits = MaxEdits
  /\ editable = {op \in Writes(Files, 2..MaxContent) \cup Deletes(Files) :
                    op.path \in {<<"source", "style.css">>, <<"target", "functions.php">>}}

\* functions.php does not exist when the watcher starts: initializeFileHashes
\* records nothing for it, and it is created in the source tree later
InitNew ==
  /\ InitTreesOf({"style.css"})
  /\ edits = MaxEdits
  /\ editable = {op \in Writes({"functions.php"}, 1..MaxContent) \cup Deletes({"functions.php"}) :
                    op.path[1] = "source"}

\* the watcher has just been started by setupCustomContent; one path is edited
InitStop ==
  /\ InitEngine(Files)
  /\ session = Session("starting")
  /\ edits = MaxEdits
  /\ editable = {op \in Writes({"style.css"}, 1..MaxContent) \cup Deletes({"style.css"}) :
                    op.path[1] = "source"}

\* one path of the source tree, which an editor may also truncate to size zero
InitEmpty ==
  /\ InitTrees
  /\ edits = MaxEditsProbe
  /\ editable = {op \in Writes({"style.css"}, Contents) \cup Deletes({"style.css"}) :
                    op.path[1] = "source"}

(* ------------------------------ isFileStable -------------------------- *)
\* An execution of performSync: where it is suspended (pc), the attempt of
\* isFileStable's loop, the time left of its wait, the first snapshot.
\* written records whether the path was written since that snapshot;
\* acquired whether this execution called lockFile.
Released(e) ==
  [dir |-> e.dir, pc |-> "release", attempt |-> 0, rem |-> Ticks(RELEASE_DELAY_MS),
   stats1 |-> NoStats, written |-> FALSE, acquired |-> e.acquired]

NewExec(direction, acquired) ==
  [dir |-> direction, pc |-> "start", attempt |-> 0, rem |-> 0,
   stats1 |-> NoStats, written |-> FALSE, acquired |-> acquired]

\* the loop body up to its first await, for attempt number attempt
BeginAttempt(files, p, e, attempt) ==
  IF attempt > MaxAttempts THEN Released(e)
  ELSE IF p \notin DOMAIN files THEN Released(e)
  ELSE IF Size(files[p].data) = 0
    THEN [e EXCEPT !.pc = "zerowait", !.attempt = attempt,
                   !.rem = Ticks(ZERO_SIZE_WAIT_MS), !.stats1 = NoStats, !.written = FALSE]
    ELSE [e EXCEPT !.pc = "stat2wait", !.attempt = attempt,
                   !.rem = Ticks(PROBE_WAIT_MS), !.stats1 = Stat(files, p), !.written = FALSE]

\* faulty variant: the modification time is not compared
SnapshotsEqualSizeOnly(stats1, stats2) ==
  stats1.size = stats2.size

\* stats1.size === stats2.size && stats1.mtime.getTime() === stats2.mtime.getTime()
SnapshotsEqual(stats1, stats2) ==
  stats1.size = stats2.size /\ stats1.mtime = stats2.mtime

\* the second half of an attempt: TRUE when isFileStable returns true
SecondSnapshotStable(files, p, e) ==
  /\ p \in DOMAIN files
  /\ SnapshotsEqual(e.stats1, Stat(files, p))

\* faulty variant: the zero-size wait repeats the attempt it belongs to
NextProbeZeroFree(files, p, e) ==
  IF e.pc = "stat2wait"
  THEN IF p \notin DOMAIN files THEN Released(e)
       ELSE IF e.attempt < MaxAttempts
         THEN [e EXCEPT !.pc = "retrywait", !.rem = Ticks(RETRY_WAIT_MS),
                        !.stats1 = NoStats, !.written = FALSE]
         ELSE Released(e)
  ELSE IF e.pc = "zerowait" THEN BeginAttempt(files, p, e, e.attempt)
  ELSE BeginAttempt(files, p, e, e.attempt + 1)

\* faulty variant: the 1000 ms wait is made after the last attempt too
NextProbeAlwaysWaits(files, p, e) ==
  IF e.pc = "stat2wait"
  THEN IF p \notin DOMAIN files THEN Released(e)
       ELSE [e EXCEPT !.pc = "retrywait", !.rem = Ticks(RETRY_WAIT_MS),
                      !.stats1 = NoStats, !.written = FALSE]
  ELSE BeginAttempt(files, p, e, e.attempt + 1)

\* where a probe that did not just return true goes on
NextProbe(files, p, e) ==
  IF e.pc = "stat2wait"
  THEN IF p \notin DOMAIN files THEN Released(e)
       ELSE IF e.attempt < MaxAttempts
         THEN [e EXCEPT !.pc = "retrywait", !.rem = Ticks(RETRY_WAIT_MS),
                        !.stats1 = NoStats, !.written = FALSE]
         ELSE Released(e)
  ELSE BeginAttempt(files, p, e, e.attempt + 1)

RemoveAt(s, i) == SubSeq(s, 1, i - 1) \o SubSeq(s, i + 1, Len(s))

(* ------------------------------ external actors ----------------------- *)
\* the recently-synced window of a sync: from its copy to the release
\* (RELEASE_DELAY_MS) and RECENT_KEEP_MS more
WindowTicks == Ticks(RELEASE_DELAY_MS) + Ticks(RECENT_KEEP_MS)

\* a sync has just copied onto w
Completed(win, w) == (w :> [age |-> 0, reedit |-> "no"]) @@ win

\* an external write to p: within 1 s of a sync that wrote p it is an early
\* re-edit; a later one is a new edit
Reedited(win, p) ==
  IF p \in DOMAIN win
  THEN [win EXCEPT ![p].reedit = IF win[p].age <= Ticks(1000) /\ @ # "late" THEN "early" ELSE "late"]
  ELSE win

WriteOp(p, data) == [kind |-> "write", path |-> p, data |-> data]
DeleteOp(p) == [kind |-> "delete", path |-> p, data |-> 0]
NoOp == [kind |-> "none", path |-> <<"source", "style.css">>, data |-> 0]

ExternalWrite(p, data) ==
  /\ Alive
  /\ edits > 0
  /\ WriteOp(p, data) \in editable
  /\ LET env == WriteFile(Env, p, data, FALSE)
     IN  /\ fs' = env.fs
         /\ evt' = Observed(env.evt)
         /\ execs' = env.execs
  /\ edits' = edits - 1
  /\ window' = Reedited(window, p)
  /\ last' = [op |-> "edit", path |-> p]
  /\ UNCHANGED <<fileHashes, lastSyncTime, syncingFiles, recentlySynced,
                 pendingOperations, timers, editable, sinceGated, released, session>>

ExternalDelete(p) ==
  /\ Alive
  /\ edits > 0
  /\ DeleteOp(p) \in editable
  /\ p \in DOMAIN fs
  /\ LET env == DeleteFile(Env, p)
     IN  /\ fs' = env.fs
         /\ evt' = env.evt
         /\ execs' = env.execs
  /\ edits' = edits - 1
  /\ last' = [op |-> "delete", path |-> p]
  /\ UNCHANGED <<fileHashes, lastSyncTime, syncingFiles, recentlySynced,
                 pendingOperations, timers, editable, sinceGated, window, released, session>>

(* ------------------------------ scheduleSync -------------------------- *)
\* faulty variant: one delay for both directions
DebounceDelaySame(direction) == DELAY_SOURCE_TO_TARGET_MS

DebounceDelay(direction) ==
  IF direction = "target-to-source"
  THEN DELAY_TARGET_TO_SOURCE_MS ELSE DELAY_SOURCE_TO_TARGET_MS

DebounceTimer(key, rem) == [kind |-> "debounce", path |-> key[1], dir |-> key[2], rem |-> rem]

\* faulty variant: the pending timeout is not cleared
ScheduleTimersNoClear(live, pending, key) ==
  live \cup {DebounceTimer(key, Ticks(DebounceDelay(key[2])))}

\* scheduleSync, the timeouts: clearTimeout of the one stored under the key, if
\* any, and a new setTimeout
ScheduleTimers(live, pending, key) ==
  (IF key \in DOMAIN pending THEN live \ {DebounceTimer(key, pending[key])} ELSE live)
  \cup {DebounceTimer(key, Ticks(DebounceDelay(key[2])))}

\* faulty variant: the map keeps the timeout it already holds for the key
SchedulePendingKeepOld(pending, key) ==
  IF key \in DOMAIN pending THEN pending
  ELSE (key :> Ticks(DebounceDelay(key[2]))) @@ pending

\* scheduleSync, the map: the new timeout is stored under the key
SchedulePending(pending, key) ==
  (key :> Ticks(DebounceDelay(key[2]))) @@ pending

\* performSync applied to a blocked path: its inputs are drawn, a hand-off
\* due for a changed source/style.css that is held (syncingFiles and
\* recentlySynced, as after lockFile) or only recently synced (as after
\* unlockFile)
InitBlocked ==
  \E held \in {"active", "recent"} :
    LET p == <<"source", "style.css">>
        key == <<p, DirectionOf(p)>>
    IN  /\ fs = (p :> [data |-> 2, mtime |-> 0]) @@ [q \in Paths |-> [data |-> 1, mtime |-> 0]]
        /\ fileHashes = [q \in Paths |-> Md5(1)]
        /\ lastSyncTime = [q \in Paths |-> Ticks(RECENT_MODIFIED_MS)]
        /\ syncingFiles = IF held = "active" THEN {p} ELSE {}
        /\ recentlySynced = {p}
        /\ pendingOperations = (key :> 0)
        /\ timers = {DebounceTimer(key, 0),
                     IF held = "active" THEN AutoUnlockTimer(p) ELSE ForgetTimer(p)}
        /\ execs = [q \in Paths |-> << >>]
        /\ evt = << >>
        /\ sinceGated = (key :> [age |-> Ticks(DebounceDelay(key[2])), events |-> 1])
        /\ window = << >>
        /\ released = << >>
        /\ session = Session("running")
        /\ last = [op |-> "init"]
        /\ edits = MaxEdits
        /\ editable = {op \in Writes({"style.css"}, 1..MaxContent) \cup Deletes({"style.css"}) :
                          op.path[1] = "source"}

(* ------------------------------ handleFileChange ---------------------- *)
\* faulty variant: the last-synced timestamp is not consulted
PassesGatesNoRecent(p) ==
  /\ ~IsFileLocked(p)
  /\ HasFileChanged(fs, fileHashes, p)

\* faulty variant: the lock gate is left out
PassesGatesNoLock(p) ==
  /\ ~WasRecentlyModified(p, RECENT_MODIFIED_MS)
  /\ HasFileChanged(fs, fileHashes, p)

PassesGates(p) ==
  /\ ~IsFileLocked(p)
  /\ ~WasRecentlyModified(p, RECENT_MODIFIED_MS)
  /\ HasFileChanged(fs, fileHashes, p)

Burst(key) == IF key \in DOMAIN sinceGated THEN sinceGated[key].events ELSE 0

\* the watcher reports an add or a change of p
HandleFileChange(p) ==
  /\ Watching
  /\ p \in DOMAIN evt
  /\ evt[p].rem = 0
  /\ evt' = [q \in DOMAIN evt \ {p} |-> evt[q]]
  /\ LET key == <<p, DirectionOf(p)>>
     IN  IF PassesGates(p)
         THEN /\ timers' = ScheduleTimers(timers, pendingOperations, key)
              /\ pendingOperations' = SchedulePending(pendingOperations, key)
              /\ sinceGated' = (key :> [age |-> 0, events |-> Burst(key) + 1]) @@ sinceGated
         ELSE UNCHANGED <<timers, pendingOperations, sinceGated>>
  /\ last' = [op |-> "event", path |-> p, own |-> evt[p].own,
              scheduled |-> PassesGates(p)]
  /\ UNCHANGED <<fs, fileHashes, lastSyncTime, syncingFiles, recentlySynced,
                 execs, edits, editable, window, released, session>>

(* ------------------------------ performSync --------------------------- *)
\* faulty variant: unlockFile without the delayed recentlySynced.delete of line 58
UnlockFileNoForget(p, remaining) ==
  /\ syncingFiles' = syncingFiles \ {p}
  /\ timers' = remaining

\* unlockFile(p): the active flag is cleared, the removal from
\* recentlySynced is set to fire later
UnlockFile(p, remaining) ==
  /\ syncingFiles' = syncingFiles \ {p}
  /\ timers' = remaining \cup {ForgetTimer(p)}

\* A timeout set by scheduleSync fires: performSync runs up to its first
\* await, then the key is deleted from pendingOperations.
DebounceFire(t) ==
  /\ Alive
  /\ t \in timers
  /\ t.kind = "debounce"
  /\ t.rem = 0
  /\ LET k == <<t.path, t.dir>>
         p == t.path
         blocked == IsFileLocked(p)
         e == IF blocked
              THEN Released(NewExec(k[2], FALSE))
              ELSE BeginAttempt(fs, GetSyncPaths(p, k[2]).sourcePath, NewExec(k[2], TRUE), 1)
     IN  /\ execs' = [execs EXCEPT ![p] = Append(@, e)]
         /\ syncingFiles' = IF blocked THEN syncingFiles ELSE syncingFiles \cup {p}
         /\ recentlySynced' = IF blocked THEN recentlySynced ELSE recentlySynced \cup {p}
         /\ timers' = (timers \ {t}) \cup (IF blocked THEN {} ELSE {AutoUnlockTimer(p)})
         /\ pendingOperations' = [j \in DOMAIN pendingOperations \ {k} |-> pendingOperations[j]]
         /\ sinceGated' = [j \in DOMAIN sinceGated \ {k} |-> sinceGated[j]]
         /\ last' = [op |-> "start", path |-> p, dir |-> k[2], blocked |-> blocked,
                     inflight |-> Len(execs[p]),
                     events |-> Burst(k),
                     waited |-> IF k \in DOMAIN sinceGated THEN sinceGated[k].age ELSE 0 - 1]
  /\ UNCHANGED <<fs, fileHashes, lastSyncTime, evt, edits, editable, window, released, session>>

\* what an external actor may do between copyFileSync and the hash recheck
Races(r, w) ==
  {NoOp} \cup (IF edits > 0 THEN {op \in editable : op.path \in {r, w}} ELSE {})

ApplyRace(env, race) ==
  IF race.kind = "write" THEN WriteFile(env, race.path, race.data, FALSE)
  ELSE IF race.kind = "delete" THEN DeleteFile(env, race.path)
  ELSE env

\* fs.copyFileSync(sourcePath, targetPath)
CopyFile(env, r, w) == WriteFile(env, w, env.fs[r].data, TRUE)

\* faulty variant: the error leaves performSync and its finally block is not run
CatchErrorEscapes(env, p, i, e) ==
  [env EXCEPT !.execs[p] = RemoveAt(@, i)]

\* the catch block logs the error; the finally block sets the delayed unlockFile
CatchError(env, p, i, e) ==
  [env EXCEPT !.execs[p][i] = Released(e)]

\* faulty variant: the hash of the file read is stored before the copy is tried
HashesAfterErrorStored(files, hashes, r) ==
  (r :> GetFileHash(files, r)) @@ hashes

\* copyFileSync threw before updateRelatedHashes was reached: the catch
\* block stores nothing
HashesAfterError(files, hashes, r) == hashes

\* isFileStable returned true: hasFileChanged, copy, updateRelatedHashes and
\* the finally block, with no await in between
SyncSection(p, i, e) ==
  LET paths == GetSyncPaths(p, e.dir)
      r == paths.sourcePath
      w == paths.targetPath
      done == [Env EXCEPT !.execs[p][i] = Released(e)]
  IN  IF ~HasFileChanged(fs, fileHashes, r)
      THEN /\ execs' = done.execs
           /\ last' = [op |-> "unchanged", path |-> r]
           /\ UNCHANGED <<fs, evt, fileHashes, lastSyncTime, edits, window>>
      ELSE \E io \in {"ok", "throws"} :
             IF io = "throws"
             THEN /\ execs' = CatchError(Env, p, i, e).execs
                  /\ fileHashes' = HashesAfterError(fs, fileHashes, r)
                  /\ last' = [op |-> "copyError", path |-> r]
                  /\ UNCHANGED <<fs, evt, lastSyncTime, edits, window>>
             ELSE \E race \in Races(r, w) :
                    LET copied == CopyFile(done, r, w)
                        env == ApplyRace(copied, race)
                    IN  /\ fs' = env.fs
                        /\ evt' = Observed(env.evt)
                        /\ execs' = env.execs
                        /\ fileHashes' = UpdateRelatedHashes(env.fs, fileHashes, r, w)
                        /\ lastSyncTime' = UpdateRelatedTimes(env.fs, lastSyncTime, r, w)
                        /\ edits' = IF race = NoOp THEN edits ELSE edits - 1
                        /\ window' = Completed(window, w)
                        /\ last' = [op |-> "copy", path |-> r, to |-> w,
                                    data |-> fs[r].data, attempt |-> e.attempt,
                                    quiet |-> ~e.written, race |-> race,
                                    reedit |-> IF r \in DOMAIN window
                                               THEN window[r].reedit ELSE "no"]

\* a wait of isFileStable is over and the execution goes on
ProbeResume(p, i) ==
  /\ Alive
  /\ i \in DOMAIN execs[p]
  /\ execs[p][i].pc \in {"zerowait", "stat2wait", "retrywait"}
  /\ execs[p][i].rem = 0
  /\ LET e == execs[p][i]
     IN  IF e.pc = "stat2wait" /\ SecondSnapshotStable(fs, p, e)
         THEN SyncSection(p, i, e)
         ELSE /\ execs' = [execs EXCEPT ![p][i] = NextProbe(fs, p, e)]
              /\ last' = [op |-> "probe", path |-> p]
              /\ UNCHANGED <<fs, evt, fileHashes, lastSyncTime, edits, window>>
  /\ UNCHANGED <<syncingFiles, recentlySynced, pendingOperations, timers, editable,
                 sinceGated, released, session>>

\* faulty variant: the timeout of the finally block does not call unlockFile
ReleaseNoUnlock(p, i) ==
  /\ Alive
  /\ i \in DOMAIN execs[p]
  /\ execs[p][i].pc = "release"
  /\ execs[p][i].rem = 0
  /\ execs' = [execs EXCEPT ![p] = RemoveAt(@, i)]
  /\ last' = [op |-> "release", path |-> p]
  /\ UNCHANGED <<fs, fileHashes, lastSyncTime, syncingFiles, recentlySynced, pendingOperations,
                 timers, evt, edits, editable, sinceGated, window, released, session>>

\* the setTimeout of performSync's finally block fires
Release(p, i) ==
  /\ Alive
  /\ i \in DOMAIN execs[p]
  /\ execs[p][i].pc = "release"
  /\ execs[p][i].rem = 0
  /\ execs' = [execs EXCEPT ![p] = RemoveAt(@, i)]
  /\ UnlockFile(p, timers)
  /\ released' = IF p \in syncingFiles THEN (p :> 0) @@ released ELSE released
  /\ last' = [op |-> "release", path |-> p]
  /\ UNCHANGED <<fs, fileHashes, lastSyncTime, recentlySynced, pendingOperations,
                 evt, edits, editable, sinceGated, window, session>>

\* faulty variant: the timeout of lockFile does not call unlockFile
AutoUnlockNoRelease(t) ==
  /\ t \in timers
  /\ t.kind = "autoUnlock"
  /\ t.rem = 0
  /\ Alive
  /\ timers' = timers \ {t}
  /\ last' = [op |-> "autoUnlock", path |-> t.path]
  /\ UNCHANGED <<fs, fileHashes, lastSyncTime, syncingFiles, recentlySynced, pendingOperations,
                 execs, evt, edits, editable, sinceGated, window, released, session>>

\* the setTimeout of lockFile fires
AutoUnlock(t) ==
  /\ t \in timers
  /\ t.kind = "autoUnlock"
  /\ t.rem = 0
  /\ Alive
  /\ UnlockFile(t.path, timers \ {t})
  /\ last' = [op |-> "autoUnlock", path |-> t.path]
  /\ UNCHANGED <<fs, fileHashes, lastSyncTime, recentlySynced, pendingOperations,
                 execs, evt, edits, editable, sinceGated, window, released, session>>

\* faulty variant: the timeout of unlockFile deletes nothing
ForgetKeeps(t) ==
  /\ t \in timers
  /\ t.kind = "forget"
  /\ t.rem = 0
  /\ Alive
  /\ timers' = timers \ {t}
  /\ last' = [op |-> "forget", path |-> t.path]
  /\ UNCHANGED <<fs, fileHashes, lastSyncTime, syncingFiles, recentlySynced, pendingOperations,
                 execs, evt, edits, editable, sinceGated, window, released, session>>

\* faulty variant: the timeout of unlockFile empties recentlySynced
ForgetAll(t) ==
  /\ t \in timers
  /\ t.kind = "forget"
  /\ t.rem = 0
  /\ Alive
  /\ recentlySynced' = {}
  /\ timers' = timers \ {t}
  /\ last' = [op |-> "forget", path |-> t.path]
  /\ UNCHANGED <<fs, fileHashes, lastSyncTime, syncingFiles, pendingOperations,
                 execs, evt, edits, editable, sinceGated, window, released, session>>

\* the setTimeout of unlockFile fires
Forget(t) ==
  /\ t \in timers
  /\ t.kind = "forget"
  /\ t.rem = 0
  /\ Alive
  /\ recentlySynced' = recentlySynced \ {t.path}
  /\ timers' = timers \ {t}
  /\ last' = [op |-> "forget", path |-> t.path]
  /\ UNCHANGED <<fs, fileHashes, lastSyncTime, syncingFiles, pendingOperations,
                 execs, evt, edits, editable, sinceGated, window, released, session>>

(* ------------------------------ start and stop ------------------------ *)
\* the steps after setupCustomContent succeeded: process.on("SIGINT") is reached
StartupDone ==
  /\ session.phase = "starting"
  /\ session' = [session EXCEPT !.phase = "running"]
  /\ last' = [op |-> "started"]
  /\ UNCHANGED <<fs, fileHashes, lastSyncTime, syncingFiles, recentlySynced, pendingOperations,
                 timers, execs, evt, edits, editable, sinceGated, window, released>>

\* a step after setupCustomContent throws (startDockerContainer,
\* waitForWordPress): the catch block calls process.exit(1)
StartupFails ==
  /\ session.phase = "starting"
  /\ session' = [session EXCEPT !.phase = "exited"]
  /\ last' = [op |-> "startupFailed"]
  /\ UNCHANGED <<fs, fileHashes, lastSyncTime, syncingFiles, recentlySynced, pendingOperations,
                 timers, execs, evt, edits, editable, sinceGated, window, released>>

\* SIGINT before the handler is registered: the process is terminated
SigintDefault ==
  /\ session.phase = "starting"
  /\ session' = [session EXCEPT !.phase = "exited"]
  /\ last' = [op |-> "killed"]
  /\ UNCHANGED <<fs, fileHashes, lastSyncTime, syncingFiles, recentlySynced, pendingOperations,
                 timers, execs, evt, edits, editable, sinceGated, window, released>>

\* SyncManager.cleanup(): clearTimeout of every pending operation, then the
\* map and the two sets are cleared
Cleanup(live, pending) ==
  [timers |-> live \ {DebounceTimer(k, pending[k]) : k \in DOMAIN pending},
   pendingOperations |-> << >>,
   syncingFiles |-> {},
   recentlySynced |-> {}]

\* The SIGINT handler up to its first await: cleanup(), watcher.close();
\* process.exit follows stopDockerContainer, at least STOP_WAIT_MS later.  A
\* second SIGINT meanwhile runs the handler again.
Sigint ==
  /\ session.phase \in {"running", "stopping"}
  /\ session.cleanups < 2
  /\ LET c == Cleanup(timers, pendingOperations)
     IN  /\ timers' = c.timers
         /\ pendingOperations' = c.pendingOperations
         /\ syncingFiles' = c.syncingFiles
         /\ recentlySynced' = c.recentlySynced
         /\ last' = [op |-> "sigint", again |-> session.phase = "stopping",
                     changed |-> \/ c.timers # timers
                                 \/ c.pendingOperations # pendingOperations
                                 \/ c.syncingFiles # syncingFiles
                                 \/ c.recentlySynced # recentlySynced
                                 \/ evt # << >>]
  /\ evt' = << >>
  /\ sinceGated' = << >>
  /\ session' = [phase |-> "stopping",
                 rem |-> IF session.phase = "running" THEN Ticks(STOP_WAIT_MS) ELSE session.rem,
                 cleanups |-> session.cleanups + 1]
  /\ UNCHANGED <<fs, fileHashes, lastSyncTime, execs, edits, editable, window, released>>

\* stopDockerContainer resolved: process.exit(0)
Exit ==
  /\ session.phase = "stopping"
  /\ session.rem = 0
  /\ session' = [session EXCEPT !.phase = "exited"]
  /\ last' = [op |-> "exit"]
  /\ UNCHANGED <<fs, fileHashes, lastSyncTime, syncingFiles, recentlySynced, pendingOperations,
                 timers, execs, evt, edits, editable, sinceGated, window, released>>

(* ------------------------------ time ---------------------------------- *)
NothingDue ==
  /\ \A t \in timers : t.rem > 0
  /\ \A p \in Paths : \A i \in DOMAIN execs[p] : execs[p][i].rem > 0
  /\ \A p \in DOMAIN evt : evt[p].rem > 0

Older(age) == IF age < Ticks(RECENT_MODIFIED_MS) THEN age + 1 ELSE age

\* PROBE_WAIT_MS pass
Tick ==
  /\ Alive
  /\ NothingDue
  /\ pendingOperations' = [k \in DOMAIN pendingOperations |-> pendingOperations[k] - 1]
  /\ timers' = {[t EXCEPT !.rem = @ - 1] : t \in timers}
  /\ execs' = [p \in Paths |-> [i \in DOMAIN execs[p] |-> [execs[p][i] EXCEPT !.rem = @ - 1]]]
  /\ evt' = [p \in DOMAIN evt |-> [evt[p] EXCEPT !.rem = @ - 1]]
  /\ lastSyncTime' = [p \in DOMAIN lastSyncTime |-> Older(lastSyncTime[p])]
  /\ sinceGated' = [k \in DOMAIN sinceGated |-> [sinceGated[k] EXCEPT !.age = @ + 1]]
  /\ window' = [p \in {q \in DOMAIN window : window[q].age < WindowTicks} |->
                  [window[p] EXCEPT !.age = @ + 1]]
  /\ released' = [p \in {q \in DOMAIN released : released[q] + 1 < Ticks(RECENT_KEEP_MS)} |->
                    released[p] + 1]
  /\ session' = [session EXCEPT !.rem = IF @ > 0 THEN @ - 1 ELSE 0]
  /\ last' = [op |-> "tick"]
  /\ UNCHANGED <<fs, fileHashes, syncingFiles, recentlySynced, edits, editable>>

Next ==
  \/ \E p \in Paths, data \in Contents : ExternalWrite(p, data)
  \/ \E p \in Paths : ExternalDelete(p)
  \/ \E p \in Paths : HandleFileChange(p)
  \/ \E t \in timers : DebounceFire(t)
  \/ \E p \in Paths : \E i \in DOMAIN execs[p] : ProbeResume(p, i)
  \/ \E p \in Paths : \E i \in DOMAIN execs[p] : Release(p, i)
  \/ \E t \in timers : AutoUnlock(t)
  \/ \E t \in timers : Forget(t)
  \/ Tick

\* the engine within the dev command, from the start of the watcher to process.exit
NextSession ==
  \/ Next
  \/ StartupDone
  \/ StartupFails
  \/ SigintDefault
  \/ Sigint
  \/ Exit

Spec == Init /\ [][Next]_vars

SpecStop == InitStop /\ [][NextSession]_vars

SpecBlocked == InitBlocked /\ [][Next]_vars

SpecEmpty == InitEmpty /\ [][Next]_vars

SpecOne == InitOne /\ [][Next]_vars

SpecTwo == InitTwo /\ [][Next]_vars

SpecNew == InitNew /\ [][Next]_vars

\* Every step of the engine is a callback of the event loop, which runs
\* what is due; time passes.
FairSpec == Spec /\ WF_vars(Next)

FairSpecNew == SpecNew /\ WF_vars(Next)

(* ------------------------------ paths as strings ---------------------- *)
\* handleFileChange and getSyncPaths as functions of the two roots and the
\* event path.  A path is the sequence of its characters, absolute and
\* normalized as path.resolve returns it.
PathChars == {"a", "b"}
Sep == "/"
Up == <<".", ".">>

NamesUpTo(n) == UNION {[1..k -> PathChars] : k \in 1..n}
SegsUpTo(depth, n) == UNION {[1..k -> NamesUpTo(n)] : k \in 1..depth}

RECURSIVE Join(_)
Join(segs) == IF Len(segs) = 0 THEN << >> ELSE <<Sep>> \o Head(segs) \o Join(Tail(segs))

RECURSIVE SplitAt(_, _, _, _)
SplitAt(str, i, cur, acc) ==
  IF i > Len(str) THEN (IF Len(cur) = 0 THEN acc ELSE Append(acc, cur))
  ELSE IF str[i] = Sep THEN SplitAt(str, i + 1, << >>, IF Len(cur) = 0 THEN acc ELSE Append(acc, cur))
  ELSE SplitAt(str, i + 1, Append(cur, str[i]), acc)

\* the directories and the file name of a path
Segments(str) == SplitAt(str, 1, << >>, << >>)

\* String.prototype.startsWith
StartsWith(str, prefix) ==
  Len(prefix) <= Len(str) /\ SubSeq(str, 1, Len(prefix)) = prefix

\* str is root or lies in the tree below root
Under(str, root) ==
  LET ss == Segments(str)
      rs == Segments(root)
  IN  Len(rs) <= Len(ss) /\ SubSeq(ss, 1, Len(rs)) = rs

\* handleFileChange: normalizedPath.startsWith(syncManager.sourcePath)
IsSourceFile(normalizedPath, sourcePath) == StartsWith(normalizedPath, sourcePath)

DirectionOfPath(normalizedPath, sourcePath) ==
  IF IsSourceFile(normalizedPath, sourcePath) THEN "source-to-target" ELSE "target-to-source"

Opposite(direction) ==
  IF direction = "source-to-target" THEN "target-to-source" ELSE "source-to-target"

\* path.relative(from, to), as the sequence of its segments: ".." for every
\* directory of from below the common ancestor, then the rest of to
PathRelative(from, to) ==
  LET fsegs == Segments(from)
      tsegs == Segments(to)
      m == IF Len(fsegs) < Len(tsegs) THEN Len(fsegs) ELSE Len(tsegs)
      c == CHOOSE k \in 0..m :
             /\ SubSeq(fsegs, 1, k) = SubSeq(tsegs, 1, k)
             /\ (k = m \/ fsegs[k + 1] # tsegs[k + 1])
  IN  [j \in 1..(Len(fsegs) - c) |-> Up] \o SubSeq(tsegs, c + 1, Len(tsegs))

RECURSIVE ApplySegments(_, _)
ApplySegments(acc, rel) ==
  IF Len(rel) = 0 THEN acc
  ELSE IF Head(rel) = Up
    THEN ApplySegments(IF Len(acc) = 0 THEN acc ELSE SubSeq(acc, 1, Len(acc) - 1), Tail(rel))
    ELSE ApplySegments(Append(acc, Head(rel)), Tail(rel))

\* path.resolve(base, relative) for an absolute base
PathResolve(base, rel) ==
  LET segs == ApplySegments(Segments(base), rel)
  IN  IF Len(segs) = 0 THEN <<Sep>> ELSE Join(segs)

\* faulty variant: target-to-source resolves against the target root
GetSyncPathsInSameRoot(filePath, direction, sourcePath, targetPath) ==
  IF direction = "source-to-target"
  THEN [sourcePath |-> filePath,
        targetPath |-> PathResolve(targetPath, PathRelative(sourcePath, filePath))]
  ELSE [sourcePath |-> filePath,
        targetPath |-> PathResolve(targetPath, PathRelative(targetPath, filePath))]

\* getSyncPaths(filePath, direction, syncManager)
GetSyncPathsIn(filePath, direction, sourcePath, targetPath) ==
  IF direction = "source-to-target"
  THEN [sourcePath |-> filePath,
        targetPath |-> PathResolve(targetPath, PathRelative(sourcePath, filePath))]
  ELSE [sourcePath |-> filePath,
        targetPath |-> PathResolve(sourcePath, PathRelative(targetPath, filePath))]

\* the roots of up to depth directories with names of up to n characters,
\* and the paths of up to depth one-character names below a root
RootStrings(depth, n) == {Join(segs) : segs \in SegsUpTo(depth, n)}
RelStrings(depth) == {Join(segs) : segs \in SegsUpTo(depth, 1)}

\* two roots, neither in the tree of the other, and the path of a file in
\* one of the two trees, as the watcher reports it
EventInputs(roots, rels) ==
  UNION {{[sourcePath |-> q[1], targetPath |-> q[2], filePath |-> root \o rel] :
            root \in {q[1], q[2]}, rel \in rels} :
         q \in {r \in roots \X roots : ~Under(r[1], r[2]) /\ ~Under(r[2], r[1])}}

InitPaths ==
  /\ fs = << >>
  /\ fileHashes = << >>
  /\ lastSyncTime = << >>
  /\ syncingFiles = {}
  /\ recentlySynced = {}
  /\ pendingOperations = << >>
  /\ timers = {}
  /\ execs = [p \in Paths |-> << >>]
  /\ evt = << >>
  /\ edits = 0
  /\ editable = {}
  /\ sinceGated = << >>
  /\ window = << >>
  /\ released = << >>
  /\ session = Session("running")
  /\ \E in \in EventInputs(RootStrings(MaxRootDepth, MaxNameLen), RelStrings(MaxRelDepth)) :
       last = [op |-> "path", in |-> in]

Engine == <<fs, fileHashes, lastSyncTime, syncingFiles, recentlySynced,
            pendingOperations, timers, execs, evt, edits, editable, sinceGated, window,
            released, session>>

\* handleFileChange determines the direction of the event path
ClassifyPath ==
  /\ last.op = "path"
  /\ last' = [op |-> "classified", in |-> last.in,
              direction |-> DirectionOfPath(last.in.filePath, last.in.sourcePath)]
  /\ UNCHANGED Engine

\* performSync calls getSyncPaths with that direction
ResolvePaths ==
  /\ last.op = "classified"
  /\ last' = [op |-> "resolved", in |-> last.in, direction |-> last.direction,
              paths |-> GetSyncPathsIn(last.in.filePath, last.direction,
                                       last.in.sourcePath, last.in.targetPath)]
  /\ UNCHANGED Engine

\* getSyncPaths for the file written, in the opposite direction
ResolveBack ==
  /\ last.op = "resolved"
  /\ last' = [op |-> "back", in |-> last.in, direction |-> last.direction,
              paths |-> last.paths,
              back |-> GetSyncPathsIn(last.paths.targetPath, Opposite(last.direction),
                                      last.in.sourcePath, last.in.targetPath)]
  /\ UNCHANGED Engine

NextPaths == ClassifyPath \/ ResolvePaths \/ ResolveBack

SpecPaths == InitPaths /\ [][NextPaths]_vars

(* ------------------------------ properties ---------------------------- *)
\* nothing of the engine is left to run
Quiescent ==
  /\ timers = {}
  /\ \A p \in Paths : execs[p] = << >>
  /\ DOMAIN evt = {}
  /\ DOMAIN pendingOperations = {}
  /\ syncingFiles = {}
  /\ recentlySynced = {}

\* C1: the watch event of the engine's own write to the counterpart of P is
\* never scheduled as a sync in the opposite direction while P is still
\* blocked by the sync that wrote it.
NoFeedbackLoop ==
  ~(/\ last.op = "event"
    /\ last.own
    /\ last.scheduled
    /\ IsFileLocked(Counterpart(last.path)))

\* C2: a copy is made only by an attempt of isFileStable during whose 500 ms
\* between the two snapshots the file read was not written.
StabilityGate ==
  last.op = "copy" => (last.quiet /\ last.attempt \in 1..MaxAttempts)

StabilityGateWitness ==
  last.op = "copy" /\ last.attempt = 2 /\ last.quiet

\* C3: a hand-off to performSync happens for a burst of one or more gated
\* events of its key, one full debounce delay after the last of them.
CoalescedHandOff ==
  last.op = "start" =>
    (last.events >= 1 /\ last.waited = Ticks(DebounceDelay(last.dir)))

CoalescedHandOffWitness ==
  last.op = "start" /\ last.events >= 2

\* the content of p is the one whose hash is stored, or p cannot be read
MatchesStored(p) ==
  \/ p \notin DOMAIN fs
  \/ p \in DOMAIN fileHashes /\ fileHashes[p] = Md5(fs[p].data)

\* C4: when the executor reaches its hasFileChanged check with the content
\* of readFrom matching the stored hash, the step copies nothing and leaves
\* the files, fileHashes and lastSyncTime as they were.
IdempotentWhenUnchanged ==
  [][(/\ last'.op \in {"unchanged", "copy", "copyError"}
      /\ MatchesStored(last'.path))
     => (/\ last'.op = "unchanged"
         /\ fs' = fs
         /\ fileHashes' = fileHashes
         /\ lastSyncTime' = lastSyncTime)]_vars

IdempotentWitness ==
  last.op = "unchanged"

\* C5: after the copy, either both files are readable with the same
\* content and both entries hold its hash with a fresh timestamp, or neither
\* fileHashes nor lastSyncTime changed.
PairHashConsistency ==
  [][last'.op = "copy" =>
       LET r == last'.path
           w == last'.to
       IN  IF r \in DOMAIN fs' /\ w \in DOMAIN fs' /\ fs'[r].data = fs'[w].data
           THEN /\ fileHashes'[r] = Md5(fs'[r].data)
                /\ fileHashes'[w] = fileHashes'[r]
                /\ lastSyncTime'[r] = 0
                /\ lastSyncTime'[w] = 0
           ELSE /\ fileHashes' = fileHashes
                /\ lastSyncTime' = lastSyncTime]_vars

\* readFrom was rewritten between the copy and the recheck: nothing stored
PairHashWitness ==
  /\ last.op = "copy"
  /\ last.race.kind = "write"
  /\ last.race.path = last.path
  /\ last.race.data # last.data
  /\ fileHashes[last.to] # Md5(last.data)

\* the executions of p between their lockFile and their own unlockFile
InFlight(p) == {i \in DOMAIN execs[p] : execs[p][i].acquired}

\* C6: at most one execution of performSync of a path is in flight.
OneExecutionPerPath ==
  \A p \in Paths : Cardinality(InFlight(p)) <= 1

\* C7: when nothing of the engine is left to run, the two copies of every
\* relative path that exist have the same content.
EventuallySynchronized ==
  Quiescent =>
    \A f \in Files :
      (<<"source", f>> \in DOMAIN fs /\ <<"target", f>> \in DOMAIN fs)
        => fs[<<"source", f>>].data = fs[<<"target", f>>].data

\* C8: the engine comes to rest: from some point on nothing is pending, in
\* flight or blocked.
Quiesces == <>[]Quiescent

\* the edits are used up, a copy was committed, and the engine is at rest
QuiescesWitness ==
  /\ Quiescent
  /\ edits = 0
  /\ fileHashes[<<"target", "style.css">>] = Md5(2)
  /\ fileHashes[<<"source", "style.css">>] = Md5(2)

\* C9: no copy from the source tree is made of a file that a sync wrote
\* within its recently-synced window and that was re-edited only within 1 s
\* of that sync.
ReeditSuppressed ==
  ~(last.op = "copy" /\ last.path[1] = "source" /\ last.reedit = "early")

\* C10: a pending hand-off is due 4000 ms after the gated event that
\* scheduled it when its path lies in the target tree and 2000 ms after it
\* when it lies in the source tree, whatever the other keys do.
DirectionalDelay ==
  \A k \in DOMAIN pendingOperations :
    /\ k \in DOMAIN sinceGated
    /\ DebounceTimer(k, pendingOperations[k]) \in timers
    /\ sinceGated[k].age + pendingOperations[k] =
         (IF k[1][1] = "target" THEN 4000 \div 500 ELSE 2000 \div 500)

\* two events at the same time, on different relative paths and in
\* different directions
DirectionalDelayWitness ==
  \E k1 \in DOMAIN pendingOperations, k2 \in DOMAIN pendingOperations :
    /\ k1[1][1] = "target" /\ k2[1][1] = "source"
    /\ k1[1][2] # k2[1][2]
    /\ sinceGated[k1].age = 3 /\ sinceGated[k2].age = 3
    /\ pendingOperations[k1] = 5 /\ pendingOperations[k2] = 1

\* C20: hasFileChanged(P) is true exactly when P is readable and its hash
\* differs from the stored one or none is stored; for a missing P it is
\* false whatever is stored.
HasFileChangedExact ==
  \A p \in Paths :
    HasFileChanged(fs, fileHashes, p) <=>
      /\ p \in DOMAIN fs
      /\ (p \notin DOMAIN fileHashes \/ fileHashes[p] # Md5(fs[p].data))

\* the event of a created file, for which no hash is stored, is scheduled
HasFileChangedWitness ==
  /\ last.op = "event"
  /\ last.scheduled
  /\ last.path \notin DOMAIN fileHashes
  /\ HasFileChanged(fs, fileHashes, last.path)
  /\ \E q \in Paths : q \notin DOMAIN fs /\ ~HasFileChanged(fs, fileHashes, q)

\* C19: an event is scheduled only when its path is in neither lock set, its
\* timestamp is absent or at least 3000 ms old and its content differs from
\* the stored hash; an event that is dropped changes neither
\* pendingOperations, the timers, the lock sets, fileHashes nor lastSyncTime.
EventGates ==
  [][last'.op = "event" =>
       LET p == last'.path
       IN  IF last'.scheduled
           THEN /\ p \notin syncingFiles
                /\ p \notin recentlySynced
                /\ (p \in DOMAIN lastSyncTime => lastSyncTime[p] >= Ticks(3000))
                /\ p \in DOMAIN fs
                /\ (p \in DOMAIN fileHashes => fileHashes[p] # Md5(fs[p].data))
                /\ <<p, DirectionOf(p)>> \in DOMAIN pendingOperations'
           ELSE /\ pendingOperations' = pendingOperations
                /\ timers' = timers
                /\ syncingFiles' = syncingFiles
                /\ recentlySynced' = recentlySynced
                /\ fileHashes' = fileHashes
                /\ lastSyncTime' = lastSyncTime]_vars

\* an event of a changed, unblocked file dropped by the timestamp alone
EventGatesWitness ==
  /\ last.op = "event"
  /\ ~last.scheduled
  /\ ~IsFileLocked(last.path)
  /\ HasFileChanged(fs, fileHashes, last.path)
  /\ WasRecentlyModified(last.path, RECENT_MODIFIED_MS)

\* C18: while the active flag of P is set, the timeout of the lockFile that
\* set it is live and at most 10000 ms from firing; every lockFile sets that
\* timeout to 10000 ms, and when it fires the flag of P is cleared.
HardAutoRelease ==
  /\ [](\A p \in syncingFiles :
         \E t \in timers :
           t.kind = "autoUnlock" /\ t.path = p /\ t.rem \in 0..Ticks(10000))
  /\ [][/\ ((last'.op = "start" /\ ~last'.blocked) =>
              ([kind |-> "autoUnlock", path |-> last'.path, rem |-> Ticks(10000)] \in timers'))
         /\ (last'.op = "autoUnlock" => last'.path \notin syncingFiles')]_vars

\* the timeout of an earlier lockFile fires while the flag is set and an
\* execution holds the path
HardAutoReleaseWitness ==
  /\ last.op = "autoUnlock"
  /\ \E i \in DOMAIN execs[last.path] : execs[last.path][i].acquired
  /\ last.path \notin syncingFiles

\* C17: a file written by a sync is in a lock set from the copy until the
\* recently-synced window of that sync ends, and the watch event of the
\* engine's own write finds its path blocked.
OwnWriteLocked ==
  /\ \A w \in DOMAIN window : IsFileLocked(w)
  /\ (last.op = "event" /\ last.own) => IsFileLocked(last.path)

\* C16: for 5000 ms after the release of a sync cleared the active flag of
\* P, P is in recentlySynced.
RecentlySyncedWindow ==
  \A p \in DOMAIN released : p \in recentlySynced /\ IsFileLocked(p)

\* the paths that are neither p nor its counterpart
Unrelated(p) == {q \in Paths : q[2] # p[2]}

\* what the engine holds about q: its lock flags, pending operations, hash and timestamp
Holds(q, syncing, recent, pending, hashes, times) ==
  [syncing |-> q \in syncing,
   recent  |-> q \in recent,
   pending |-> [k \in {j \in DOMAIN pending : j[1] = q} |-> pending[k]],
   hash    |-> IF q \in DOMAIN hashes THEN hashes[q] ELSE NullHash,
   time    |-> IF q \in DOMAIN times THEN times[q] ELSE 0 - 1]

\* C15: a step of the engine for path P (event, hand-off, probe, copy,
\* failure, release, timeout of its lock) leaves the lock flags, the pending
\* operations, the hash and the timestamp of every path of another relative
\* path as they were.
PathsIndependent ==
  [][last'.op \in {"event", "start", "probe", "unchanged", "copy", "copyError",
                   "release", "autoUnlock", "forget"} =>
       \A q \in Unrelated(last'.path) :
         Holds(q, syncingFiles', recentlySynced', pendingOperations', fileHashes', lastSyncTime')
           = Holds(q, syncingFiles, recentlySynced, pendingOperations, fileHashes, lastSyncTime)]_vars

\* a timeout of the lock of style.css fires while functions.php is blocked
\* and has an execution in flight
PathsIndependentWitness ==
  /\ last.op \in {"forget", "autoUnlock"}
  /\ last.path[2] = "style.css"
  /\ \E q \in Unrelated(last.path) : q \in recentlySynced /\ execs[q] # << >>

\* C11: a sync cycle that fails (copyFileSync or mkdirSync throws, or the
\* file is missing or never stable) ends in the finally block with its
\* delayed unlockFile set, copies nothing, and leaves the trees, the hashes,
\* the timestamps, the lock sets, the pending operations and the executions
\* of every other path as they were.
NoFaultEscapes ==
  [][last'.op \in {"copyError", "probe"} =>
       LET p == last'.path
       IN  /\ Len(execs'[p]) = Len(execs[p])
           /\ \A i \in DOMAIN execs[p] :
                 execs'[p][i] # execs[p][i] =>
                   /\ execs'[p][i].pc \in {"release", "zerowait", "stat2wait", "retrywait"}
                   /\ last'.op = "copyError" => execs'[p][i] = Released(execs[p][i])
           /\ \A q \in Paths \ {p} : execs'[q] = execs[q]
           /\ UNCHANGED <<fs, evt, fileHashes, lastSyncTime, syncingFiles, recentlySynced,
                          pendingOperations, timers>>]_vars

\* a copy failed while the counterpart of the path has a pending operation
NoFaultEscapesWitness ==
  /\ last.op = "copyError"
  /\ \E i \in DOMAIN execs[last.path] : execs[last.path][i].pc = "release"
  /\ \E k \in DOMAIN pendingOperations : k[1] # last.path

\* C12: between cleanup() and process.exit no timeout set before the cleanup
\* fires (no hand-off of a debounced operation, no auto-unlock of lockFile,
\* no recentlySynced.delete within the first 1000 ms, which can only have
\* been set before), and pendingOperations, syncingFiles and recentlySynced
\* are empty.
ShutdownLeavesNoTimer ==
  session.phase = "stopping" =>
    /\ last.op \notin {"start", "autoUnlock"}
    /\ ~(last.op = "forget" /\ session.rem > 0)
    /\ DOMAIN pendingOperations = {}
    /\ syncingFiles = {}
    /\ recentlySynced = {}

\* C13: between cleanup() with watcher.close() and process.exit no file is
\* copied and no hash is stored.
NoSyncAfterShutdown ==
  session.phase = "stopping" => last.op # "copy"

\* C14: the process exits only after cleanup() ran, and a second run of the
\* SIGINT handler changes nothing.
StopAlwaysRuns ==
  /\ session.phase = "exited" => session.cleanups >= 1
  /\ (last.op = "sigint" /\ last.again) => ~last.changed

\* the live timeouts set by scheduleSync
LiveDebounce == {t \in timers : t.kind = "debounce"}

\* C21: the live debounce timeouts are exactly the ones stored in
\* pendingOperations, one per key; a hand-off removes its key from the map
\* and leaves no timeout of that key behind.
PendingNeverStack ==
  /\ [](/\ LiveDebounce = {DebounceTimer(k, pendingOperations[k]) : k \in DOMAIN pendingOperations}
        /\ \A t1 \in LiveDebounce, t2 \in LiveDebounce :
              (t1.path = t2.path /\ t1.dir = t2.dir) => t1 = t2)
  /\ [][last'.op = "start" =>
          /\ <<last'.path, last'.dir>> \in DOMAIN pendingOperations
          /\ <<last'.path, last'.dir>> \notin DOMAIN pendingOperations'
          /\ \A t \in LiveDebounce' : ~(t.path = last'.path /\ t.dir = last'.dir)]_vars

\* an event has superseded the pending timeout of its key
PendingNeverStackWitness ==
  /\ last.op = "event"
  /\ last.scheduled
  /\ \E k \in DOMAIN sinceGated :
        /\ k[1] = last.path
        /\ sinceGated[k].events >= 2
        /\ Cardinality({t \in LiveDebounce : t.path = k[1] /\ t.dir = k[2]}) = 1

\* the execution has left the body of performSync and waits for the timeout
\* of its finally block
Finished(e) == e.pc = "release"

\* C22: an execution that ends, whatever its outcome, has the timeout of its
\* finally block set to 1000 ms and stays until that timeout fires; the
\* timeout clears the active flag of its path; and a path whose active flag
\* is set is eventually in neither lock set.
GuaranteedRelease ==
  /\ [][/\ (last'.op \in {"start", "probe", "unchanged", "copy", "copyError"} =>
             LET p == last'.path
             IN  /\ Len(execs'[p]) >= Len(execs[p])
                 /\ \A i \in DOMAIN execs'[p] :
                       (Finished(execs'[p][i]) /\ (i \notin DOMAIN execs[p] \/ ~Finished(execs[p][i])))
                         => execs'[p][i].rem = Ticks(1000))
         /\ (last'.op \in {"unchanged", "copy", "copyError"} =>
               \E i \in DOMAIN execs[last'.path] :
                 ~Finished(execs[last'.path][i]) /\ Finished(execs'[last'.path][i]))
         /\ (last'.op = "release" => last'.path \notin syncingFiles')]_vars
  /\ \A p \in Paths : (p \in syncingFiles) ~> ~IsFileLocked(p)

\* an execution that acquired the lock gave up on an unstable or missing
\* file and its release is set
GuaranteedReleaseWitness ==
  /\ last.op = "probe"
  /\ last.path \in syncingFiles
  /\ \E i \in DOMAIN execs[last.path] :
        LET e == execs[last.path][i]
        IN  Finished(e) /\ e.acquired /\ e.rem = Ticks(1000)

Stored(hashes, times, q) ==
  [hash |-> IF q \in DOMAIN hashes THEN hashes[q] ELSE NullHash,
   time |-> IF q \in DOMAIN times THEN times[q] ELSE 0 - 1]

\* C24: a step in which an execution ends without having copied (the copy
\* throws, or the file is missing or not stable) stores no hash and no
\* timestamp for the file read or its counterpart, and after a copy that
\* threw hasFileChanged of the file read is still true.
FailedCyclesCommitNothing ==
  [][(\/ last'.op = "copyError"
      \/ /\ last'.op \in {"probe", "start"}
         /\ \E i \in DOMAIN execs'[last'.path] :
              /\ Finished(execs'[last'.path][i])
              /\ (i \notin DOMAIN execs[last'.path] \/ ~Finished(execs[last'.path][i])))
     => LET r == last'.path
            w == Counterpart(r)
        IN  /\ Stored(fileHashes', lastSyncTime', r) = Stored(fileHashes, lastSyncTime, r)
            /\ Stored(fileHashes', lastSyncTime', w) = Stored(fileHashes, lastSyncTime, w)
            /\ fs' = fs
            /\ (last'.op = "copyError" => HasFileChanged(fs', fileHashes', r))]_vars

\* a copy threw: the file read still differs from its stored hash and the
\* counterpart was not written
FailedCyclesWitness ==
  /\ last.op = "copyError"
  /\ HasFileChanged(fs, fileHashes, last.path)
  /\ Counterpart(last.path) \in DOMAIN fs
  /\ fs[Counterpart(last.path)].data # fs[last.path].data

\* an execution of p that is in its zero-size wait
InZeroWait(ex, p, i) == i \in DOMAIN ex[p] /\ ex[p][i].pc = "zerowait"

\* C25: the wait after a zero-size snapshot does not consume an attempt: a
\* file found empty by every attempt and non-empty when the last zero-size
\* wait is over is still probed, isFileStable does not return false for it.
EmptyThenWrittenStillProbed ==
  [][\A p \in Paths : \A i \in DOMAIN execs[p] :
       (InZeroWait(execs, p, i) /\ last'.op = "probe" /\ last'.path = p
          /\ execs'[p][i] # execs[p][i] /\ p \in DOMAIN fs' /\ Size(fs'[p].data) # 0)
       => ~Finished(execs'[p][i])]_vars

\* isFileStable has not returned
Probing(e) == e.pc \in {"zerowait", "stat2wait", "retrywait"}

\* the longest one attempt and the wait before it can take
AttemptTicks == Ticks(RETRY_WAIT_MS) + Ticks(PROBE_WAIT_MS)

\* the longest isFileStable can still run from where e is suspended
Budget(e) ==
  IF e.pc = "retrywait"
  THEN e.rem + Ticks(PROBE_WAIT_MS) + (MaxAttempts - e.attempt - 1) * AttemptTicks
  ELSE e.rem + (MaxAttempts - e.attempt) * AttemptTicks

\* the longest isFileStable can run: maxAttempts attempts, a wait between them
ProbeBudget == Ticks(PROBE_WAIT_MS) + (MaxAttempts - 1) * AttemptTicks

\* C26: isFileStable returns after a bounded number of waits whatever the
\* file does (stays empty, changes at every snapshot, disappears): a
\* suspended probe is at an attempt 1..maxAttempts, the time it can still
\* run is within the probe budget, no step of the program or of an external
\* actor raises that time and every tick lowers it; when it has returned,
\* the release of its caller's lock is RELEASE_DELAY_MS away at most.
ProberTerminates ==
  /\ [](\A p \in Paths : \A i \in DOMAIN execs[p] :
          LET e == execs[p][i]
          IN  /\ Probing(e) => (e.attempt \in 1..MaxAttempts /\ Budget(e) <= ProbeBudget)
              /\ Finished(e) => e.rem <= Ticks(RELEASE_DELAY_MS))
  /\ [][last'.op # "release"
        => \A p \in Paths : \A i \in DOMAIN execs[p] :
             Probing(execs[p][i])
             => /\ i \in DOMAIN execs'[p]
                /\ (Probing(execs'[p][i]) => Budget(execs'[p][i]) <= Budget(execs[p][i]))
                /\ (last'.op = "tick" => /\ Probing(execs'[p][i])
                                         /\ Budget(execs'[p][i]) < Budget(execs[p][i]))]_vars

\* isFileStable has given up on a file that was empty at every attempt
ProberTerminatesWitness ==
  /\ last.op = "probe"
  /\ last.path \in DOMAIN fs
  /\ Size(fs[last.path].data) = 0
  /\ \E i \in DOMAIN execs[last.path] : Finished(execs[last.path][i])

\* isFileStable returned true in this step: performSync went on to hasFileChanged
ReturnsTrue(op) == op \in {"unchanged", "copy", "copyError"}

\* C27: isFileStable returns true exactly when the second snapshot of an
\* attempt, taken 500 ms after the first, finds the file existing, non-empty
\* and with the size and mtime of the first; it waits 1000 ms before the
\* next attempt only when the attempt just failed was not the last; and it
\* returns false exactly when the file is missing at a snapshot or attempt
\* maxAttempts has failed.
ProberResult ==
  [][/\ (last'.op = "start" /\ ~last'.blocked)
        => LET p == last'.path
               e == execs'[p][Len(execs'[p])]
           IN  /\ Finished(e) <=> p \notin DOMAIN fs
               /\ Probing(e) => e.attempt = 1
     /\ \A p \in Paths : \A i \in DOMAIN execs[p] :
       LET e == execs[p][i]
           resumed == /\ Probing(e) /\ e.rem = 0 /\ i \in DOMAIN execs'[p]
                      /\ (last'.op = "probe" \/ ReturnsTrue(last'.op)) /\ last'.path = p
                      /\ (execs'[p][i].pc # e.pc \/ execs'[p][i].attempt # e.attempt)
           equal == /\ e.pc = "stat2wait" /\ p \in DOMAIN fs /\ Size(fs[p].data) # 0
                    /\ e.stats1.size = Size(fs[p].data) /\ e.stats1.mtime = fs[p].mtime
       IN  resumed =>
                /\ execs'[p][i].pc = "stat2wait" => execs'[p][i].rem = Ticks(PROBE_WAIT_MS)
                /\ ReturnsTrue(last'.op) <=> equal
                /\ ReturnsTrue(last'.op) => Finished(execs'[p][i])
                /\ execs'[p][i].pc = "retrywait"
                     <=> (e.pc = "stat2wait" /\ ~equal /\ p \in DOMAIN fs /\ e.attempt < MaxAttempts)
                /\ execs'[p][i].pc = "retrywait"
                     => (execs'[p][i].rem = Ticks(RETRY_WAIT_MS) /\ execs'[p][i].attempt = e.attempt)
                /\ (last'.op = "probe" /\ Finished(execs'[p][i]))
                     <=> (~equal /\ (p \notin DOMAIN fs \/ e.attempt = MaxAttempts))]_vars

\* isFileStable returned true at its last attempt, after two that failed
ProberResultWitness ==
  /\ last.op = "copy"
  /\ last.attempt = MaxAttempts
  /\ \E i \in DOMAIN execs[last.path] : Finished(execs[last.path][i])

RightlyClassified(in, direction) ==
  IF direction = "source-to-target"
  THEN Under(in.filePath, in.sourcePath)
  ELSE Under(in.filePath, in.targetPath)

\* C29: getSyncPaths reads from the event path itself and writes to the
\* path with the same relative path under the other root; getSyncPaths for
\* the path written, in the opposite direction, writes to the event path.
PathRoundTrip ==
  /\ (last.op \in {"resolved", "back"} /\ RightlyClassified(last.in, last.direction))
       => LET from == IF last.direction = "source-to-target"
                      THEN last.in.sourcePath ELSE last.in.targetPath
              to == IF last.direction = "source-to-target"
                    THEN last.in.targetPath ELSE last.in.sourcePath
              rel == SubSeq(last.in.filePath, Len(from) + 1, Len(last.in.filePath))
          IN  /\ last.paths.sourcePath = last.in.filePath
              /\ last.paths.targetPath = to \o rel
              /\ Under(last.paths.targetPath, to)
  /\ (last.op = "back" /\ RightlyClassified(last.in, last.direction))
       => /\ last.back.sourcePath = last.paths.targetPath
          /\ last.back.targetPath = last.in.filePath

\* a file two directories below the target root was mapped to the source
\* tree and back
PathRoundTripWitness ==
  /\ last.op = "back"
  /\ last.direction = "target-to-source"
  /\ RightlyClassified(last.in, last.direction)
  /\ Len(Segments(last.in.filePath)) = Len(Segments(last.in.targetPath)) + MaxRelDepth
  /\ last.back.targetPath = last.in.filePath
  /\ last.paths.targetPath # last.in.filePath

\* a sync that read or wrote p made its copy less than ms ago
CopiedWithin(p, ms) ==
  \E q \in {p, Counterpart(p)} : q \in DOMAIN window /\ window[q].age < Ticks(ms)

\* C30: an event that passes the lock gate is dropped by the
\* recently-modified guard only if a sync that read or wrote its path made
\* its copy within the 3000 ms before the event.
RecentGuardEngineOnly ==
  [][(/\ last'.op = "event"
      /\ ~last'.scheduled
      /\ ~IsFileLocked(last'.path)
      /\ WasRecentlyModified(last'.path, RECENT_MODIFIED_MS))
     => CopiedWithin(last'.path, RECENT_MODIFIED_MS)]_vars

\* C31: performSync locks exactly when its path is in neither lock set, only
\* an execution that locked probes, and a copy is made by an execution that
\* locked, whose probe has just returned true and whose file read differs
\* from its stored hash; the copy, the pair update of fileHashes and
\* lastSyncTime and the end of the execution are one step, in which no
\* timer, pending operation or lock set changes.
ExecutorStepOrder ==
  [][/\ last'.op = "start"
        => LET p == last'.path
               e == execs'[p][Len(execs'[p])]
           IN  /\ e.acquired <=> (p \notin syncingFiles /\ p \notin recentlySynced)
               /\ e.acquired => (p \in syncingFiles' /\ p \in recentlySynced')
               /\ ~e.acquired => Finished(e)
     /\ \A p \in Paths : \A i \in DOMAIN execs'[p] :
          Probing(execs'[p][i]) => execs'[p][i].acquired
     /\ last'.op = "copy"
        => LET r == last'.path
               w == last'.to
           IN  /\ \E i \in DOMAIN execs[r] :
                     LET e == execs[r][i]
                     IN  /\ e.pc = "stat2wait" /\ e.rem = 0 /\ e.acquired
                         /\ r \in DOMAIN fs
                         /\ e.stats1 = Stat(fs, r) /\ e.stats1.size # 0
                         /\ Finished(execs'[r][i])
               /\ r \notin DOMAIN fileHashes \/ fileHashes[r] # Md5(fs[r].data)
               /\ fileHashes' = UpdateRelatedHashes(fs', fileHashes, r, w)
               /\ lastSyncTime' = UpdateRelatedTimes(fs', lastSyncTime, r, w)
               /\ timers' = timers
               /\ pendingOperations' = pendingOperations
               /\ syncingFiles' = syncingFiles
               /\ recentlySynced' = recentlySynced]_vars

\* a copy was made and committed with nothing in between
ExecutorStepOrderWitness ==
  /\ last.op = "copy"
  /\ last.race = NoOp
  /\ fs[last.to].data = last.data
  /\ fileHashes[last.path] = Md5(last.data)
  /\ fileHashes[last.to] = Md5(last.data)
  /\ lastSyncTime[last.path] = 0

Least(S) == CHOOSE m \in S : \A n \in S : m <= n

\* the longest p can stay blocked if lockFile(p) is not called again: until
\* the first unlockFile and RECENT_KEEP_MS more, or until the first
\* recentlySynced.delete
BlockedFor(tm, active, recent, p) ==
  LET left(kind) == {t.rem : t \in {u \in tm : u.kind = kind /\ u.path = p}}
  IN  IF p \in active
      THEN (IF left("autoUnlock") = {} THEN Ticks(LOCK_TIMEOUT_MS) + 1
            ELSE Least(left("autoUnlock"))) + Ticks(RECENT_KEEP_MS)
      ELSE IF p \in recent
        THEN (IF left("forget") = {} THEN Ticks(RECENT_KEEP_MS) + 1 ELSE Least(left("forget")))
        ELSE 0

\* C32: a blocked path has a live timeout that unblocks it, at most 15000 ms
\* away; only a lockFile of the path (which sets 15000 ms) raises the time
\* the path can stay blocked, and every tick lowers it.
BoundedBlocking ==
  /\ [](\A p \in Paths :
          BlockedFor(timers, syncingFiles, recentlySynced, p)
            <= Ticks(LOCK_TIMEOUT_MS) + Ticks(RECENT_KEEP_MS))
  /\ [][\A p \in Paths :
          LET before == BlockedFor(timers, syncingFiles, recentlySynced, p)
              after == BlockedFor(timers', syncingFiles', recentlySynced', p)
          IN  /\ ~(last'.op = "start" /\ last'.path = p /\ ~last'.blocked) => after <= before
              /\ (last'.op = "tick" /\ IsFileLocked(p)) => after < before
              /\ (~IsFileLocked(p) /\ after > 0)
                    => (last'.op = "start" /\ last'.path = p /\ ~last'.blocked)]_vars

\* the auto-unlock of a lockFile has fired and its path is still blocked,
\* for RECENT_KEEP_MS at most
BoundedBlockingWitness ==
  /\ last.op = "autoUnlock"
  /\ last.path \in recentlySynced
  /\ BlockedFor(timers, syncingFiles, recentlySynced, last.path) \in 1..Ticks(RECENT_KEEP_MS)

\* C33: fileHashes is written only by the pair update of a copy and never
\* loses an entry, and as soon as either copy of a relative path has a
\* stored hash both have one and the two are equal, in every later state.
FingerprintPair ==
  /\ [](\A f \in Files :
          LET s == <<"source", f>>
              t == <<"target", f>>
          IN  (s \in DOMAIN fileHashes \/ t \in DOMAIN fileHashes)
                => (s \in DOMAIN fileHashes /\ t \in DOMAIN fileHashes
                      /\ fileHashes[s] = fileHashes[t]))
  /\ [][fileHashes' # fileHashes
          => (last'.op = "copy" /\ DOMAIN fileHashes \subseteq DOMAIN fileHashes')]_vars

\* functions.php, created after startup, was committed by a sync and its
\* source copy has been edited since: the stored pair is still equal
FingerprintPairWitness ==
  /\ last.op = "edit"
  /\ last.path = <<"source", "functions.php">>
  /\ <<"target", "functions.php">> \in DOMAIN fileHashes
  /\ fileHashes[<<"source", "functions.php">>] = fileHashes[<<"target", "functions.php">>]
  /\ fileHashes[last.path] # Md5(fs[last.path].data)

\* C34: a path with a pending debounced operation is in neither lock set,
\* and no hand-off of a debounce timeout finds its path blocked.
PendingImpliesUnblocked ==
  /\ [](\A k \in DOMAIN pendingOperations : ~IsFileLocked(k[1]))
  /\ [][last'.op = "start" => (~last'.blocked /\ ~IsFileLocked(last'.path))]_vars

\* an operation is pending for a path while the other copy of the file is
\* blocked by the sync that wrote the path
PendingImpliesUnblockedWitness ==
  \E k \in DOMAIN pendingOperations :
    /\ IsFileLocked(Counterpart(k[1]))
    /\ ~IsFileLocked(k[1])
    /\ pendingOperations[k] = 0

====
